---- MODULE Spec2Model ----
(***************************************************************************)
(* JobScraper.py: scrape_jobs fetches `pages` result pages one after the   *)
(* other, extracts one JobPosting per job card that has a title anchor,    *)
(* and main prints a line report of the postings returned.                 *)
(*                                                                         *)
(* Python strings that stay ASCII are TLA+ strings; the query and the      *)
(* location, which may hold any character, are sequences of code points.   *)
(* An optional value (a tag select_one may not find, an attribute .get     *)
(* may not find) is <<>> when absent and <<v>> when present.               *)
(***************************************************************************)
EXTENDS Integers, Sequences, FiniteSets, TLC

(* ---------------------------------------------------------------------- *)
(* Bounds of the model                                                     *)
(* ---------------------------------------------------------------------- *)
MaxPages == 2
MaxCards == 2
MaxLen == 2

(* ---------------------------------------------------------------------- *)
(* Characters, code points, bytes                                          *)
(* ---------------------------------------------------------------------- *)
\* The printable ASCII characters in code order: 32 (space) to 95, and 97 to
\* 126 (the grave accent, 96, has no place in a TLA+ string).
AsciiLow == " !\"#$%&'()*+,-./0123456789:;<=>?@ABCDEFGHIJKLMNOPQRSTUVWXYZ[\\]^_"

AsciiHigh == "abcdefghijklmnopqrstuvwxyz{|}~"

AsciiCodes == (32..126) \ {96}

\* The character of a code in AsciiCodes.
Chr(n) == IF n < 96 THEN SubSeq(AsciiLow, n - 31, n - 31)
                   ELSE SubSeq(AsciiHigh, n - 96, n - 96)

CharAt(s, i) == SubSeq(s, i, i)

RECURSIVE FindFrom(_, _, _)
\* The index of the first c in s at or after i, 0 when there is none.
FindFrom(s, c, i) ==
    IF i > Len(s) THEN 0
    ELSE IF CharAt(s, i) = c THEN i
    ELSE FindFrom(s, c, i + 1)

\* The index of the first c in s, 0 when there is none.
Find(s, c) == FindFrom(s, c, 1)

\* The code of a printable ASCII character.
Ord(c) ==
    IF Find(AsciiLow, c) # 0 THEN 31 + Find(AsciiLow, c) ELSE 96 + Find(AsciiHigh, c)

\* The code points of an ASCII string.
CodePoints(s) == [i \in 1..Len(s) |-> Ord(CharAt(s, i))]

\* str.encode("utf-8") of one code point below 65536 (no surrogate).
Utf8(cp) ==
    IF cp < 128 THEN <<cp>>
    ELSE IF cp < 2048 THEN <<192 + (cp \div 64), 128 + (cp % 64)>>
    ELSE <<224 + (cp \div 4096), 128 + ((cp \div 64) % 64), 128 + (cp % 64)>>

HexDigits == "0123456789ABCDEF"

HexByte(b) == "%" \o CharAt(HexDigits, (b \div 16) + 1) \o CharAt(HexDigits, (b % 16) + 1)

\* urllib's _ALWAYS_SAFE plus quote's default safe="/".
SafeChars == "ABCDEFGHIJKLMNOPQRSTUVWXYZabcdefghijklmnopqrstuvwxyz0123456789_.-~/"

SafeBytes == {Ord(CharAt(SafeChars, i)) : i \in 1..Len(SafeChars)}

\* A plausible slip: "&" and "=" listed as safe characters.
QuoteByteKeepsDelimiters(b) ==
    IF b \in SafeBytes \cup {38, 61} THEN Chr(b) ELSE HexByte(b)

QuoteByte(b) == IF b \in SafeBytes THEN Chr(b) ELSE HexByte(b)

RECURSIVE QuoteBytes(_)
QuoteBytes(bs) ==
    IF bs = <<>> THEN "" ELSE QuoteByte(Head(bs)) \o QuoteBytes(Tail(bs))

\* requests.utils.quote(str(v)) for a string value given as code points.
RECURSIVE quote(_)
quote(cps) ==
    IF cps = <<>> THEN "" ELSE QuoteBytes(Utf8(Head(cps))) \o quote(Tail(cps))

\* str(v) of a non-negative integer.
RECURSIVE IntToStr(_)
IntToStr(n) ==
    IF n < 10 THEN Chr(48 + n) ELSE IntToStr(n \div 10) \o Chr(48 + (n % 10))

BASE_URL == "https://www.indeed.com/jobs"

build_search_url(query, location, start) ==
    BASE_URL \o "?" \o "q=" \o quote(query)
             \o "&" \o "l=" \o quote(location)
             \o "&" \o "start=" \o quote(CodePoints(IntToStr(start)))

(* ---------------------------------------------------------------------- *)
(* Job cards and field extraction (the body of the card loop)              *)
(* ---------------------------------------------------------------------- *)
None == <<>>

Some(v) == <<v>>

\* What str.strip() removes, among the characters a TLA+ string can hold.
Whitespace == {" ", "\t", "\n", "\r", "\f"}

RECURSIVE lstrip(_)
lstrip(s) ==
    IF s # "" /\ CharAt(s, 1) \in Whitespace THEN lstrip(SubSeq(s, 2, Len(s))) ELSE s

RECURSIVE rstrip(_)
rstrip(s) ==
    IF s # "" /\ CharAt(s, Len(s)) \in Whitespace
    THEN rstrip(SubSeq(s, 1, Len(s) - 1)) ELSE s

strip(s) == rstrip(lstrip(s))

startswith(s, prefix) ==
    Len(s) >= Len(prefix) /\ SubSeq(s, 1, Len(prefix)) = prefix

\* card.select_one(primary) or card.select_one(alternate): a Tag is always
\* truthy, so the alternate is taken only when the primary is None.
select_or(primary, alternate) == IF primary # None THEN primary ELSE alternate

JobPosting(title, company, location_text, summary, url) ==
    [title |-> title, company |-> company, location |-> location_text,
     summary |-> summary, url |-> url]

title_tag_of(card) == select_or(card.h2title, card.h2jobTitle)

\* title_tag.get("title") or title_tag.text.strip()
title_of(tag) ==
    IF tag.title # None /\ tag.title[1] # "" THEN tag.title[1] ELSE strip(tag.text)

SITE_ORIGIN == "https://www.indeed.com"

\* A plausible slip: the origin put in front of every non-empty href.
link_always_prefixed(tag) ==
    LET link == IF tag.href # None THEN tag.href[1] ELSE ""
    IN  IF link # "" THEN SITE_ORIGIN \o link ELSE link

\* A plausible slip: the href taken as it is, never made absolute.
link_never_prefixed(tag) == IF tag.href # None THEN tag.href[1] ELSE ""

\* link = title_tag.get("href", ""), made absolute when it starts with "/".
link_of(tag) ==
    LET link == IF tag.href # None THEN tag.href[1] ELSE ""
    IN  IF link # "" /\ startswith(link, "/") THEN SITE_ORIGIN \o link ELSE link

\* A plausible slip: the alternate selector tried first.
company_alternate_first(card) ==
    LET company_tag == select_or(card.companyName, card.company)
    IN  IF company_tag # None THEN strip(company_tag[1]) ELSE ""

company_of(card) ==
    LET company_tag == select_or(card.company, card.companyName)
    IN  IF company_tag # None THEN strip(company_tag[1]) ELSE ""

location_of(card) ==
    LET loc_tag == select_or(card.recJobLoc, card.companyLocation)
    IN  IF loc_tag # None /\ loc_tag[1].data # None /\ loc_tag[1].data[1] # ""
        THEN loc_tag[1].data[1]
        ELSE IF loc_tag # None THEN strip(loc_tag[1].text) ELSE ""

summary_of(card) ==
    LET summary_tag == select_or(card.summary, card.jobSnippet)
    IN  IF summary_tag # None THEN strip(summary_tag[1]) ELSE ""

\* A plausible slip: a card without title anchor kept, with empty title and link.
CardPostingsKeepsUntitled(card) ==
    LET title_tag == title_tag_of(card)
    IN  <<JobPosting(IF title_tag = None THEN "" ELSE title_of(title_tag[1]),
                     company_of(card), location_of(card), summary_of(card),
                     IF title_tag = None THEN "" ELSE link_of(title_tag[1]))>>

\* One iteration of the card loop: the postings it appends to results.
CardPostings(card) ==
    LET title_tag == title_tag_of(card)
    IN  IF title_tag = None THEN <<>>
        ELSE <<JobPosting(title_of(title_tag[1]), company_of(card),
                          location_of(card), summary_of(card),
                          link_of(title_tag[1]))>>

\* A plausible slip: the new postings put in front (insert(0, ...)).
PrependPostings(results, new) == new \o results

\* results.append(...): where the new postings go.
AppendPostings(results, new) == results \o new

(* ---------------------------------------------------------------------- *)
(* The report main prints                                                  *)
(* ---------------------------------------------------------------------- *)
SeparatorWidth == 60

RECURSIVE Repeat(_, _)
Repeat(c, n) == IF n = 0 THEN "" ELSE c \o Repeat(c, n - 1)

\* A plausible slip: the summary line printed whether empty or not.
JobLinesAlwaysSummary(job) ==
    <<job.title \o " at " \o job.company \o " (" \o job.location \o ")",
      job.summary, job.url, Repeat("-", SeparatorWidth)>>

\* The lines one iteration of main's loop prints.
JobLines(job) ==
    <<job.title \o " at " \o job.company \o " (" \o job.location \o ")">>
    \o (IF job.summary # "" THEN <<job.summary>> ELSE <<>>)
    \o <<job.url, Repeat("-", SeparatorWidth)>>

(* ---------------------------------------------------------------------- *)
(* What the server may answer                                              *)
(* ---------------------------------------------------------------------- *)
NoCard ==
    [h2title |-> None, h2jobTitle |-> None, company |-> None,
     companyName |-> None, recJobLoc |-> None, companyLocation |-> None,
     summary |-> None, jobSnippet |-> None]

Anchor(title, href, text) == [title |-> title, href |-> href, text |-> text]

LocTag(data, text) == [data |-> data, text |-> text]

\* A card of the primary layout, with every field and a relative link.
CardA ==
    [NoCard EXCEPT !.h2title = Some(Anchor(Some("Dev"), Some("/viewjob?jk=abc"), " dev ")),
                   !.company = Some(" Acme "),
                   !.recJobLoc = Some(LocTag(Some("NY"), " New York ")),
                   !.summary = Some(" Builds ")]

\* A card of the alternate layout, without summary, with an absolute link.
CardB ==
    [NoCard EXCEPT !.h2jobTitle = Some(Anchor(None, Some("https://example.com/x"), " QA ")),
                   !.companyName = Some("Beta"),
                   !.companyLocation = Some(LocTag(None, " Remote "))]

\* A card without title anchor.
CardNoTitle == [NoCard EXCEPT !.company = Some("Ghost")]

RunCards == {CardA, CardB, CardNoTitle}

RECURSIVE SeqsUpTo(_, _)
SeqsUpTo(S, n) ==
    IF n = 0 THEN {<<>>}
    ELSE LET shorter == SeqsUpTo(S, n - 1)
         IN  shorter \cup {Append(s, x) : s \in {q \in shorter : Len(q) = n - 1}, x \in S}

\* The pages of a run: up to MaxCards cards each, in document order.
Docs == SeqsUpTo(RunCards, MaxCards)

Texts == {"", " ", " a ", "b"}

TitleAttrs == {None, Some(""), Some("T")}

Hrefs == {None, Some(""), Some("/viewjob?jk=abc"), Some("viewjob?jk=abc"),
          Some("https://example.com/x")}

Anchors == {Anchor(t, h, x) : t \in TitleAttrs, h \in Hrefs, x \in {"", " ", " a "}}

TextTags == {None} \cup {Some(x) : x \in Texts}

LocTags == {None} \cup {Some(LocTag(d, x)) : d \in {None, Some(""), Some("L ")},
                                             x \in {"", " a "}}

\* Single cards that vary one field group over all its cases.
AllCards ==
    {[NoCard EXCEPT !.h2title = a, !.h2jobTitle = b] :
        a \in {None} \cup {Some(x) : x \in Anchors},
        b \in {None, Some(Anchor(Some("Alt"), Some("/alt"), "alt"))}}
    \cup {[NoCard EXCEPT !.h2jobTitle = Some(x)] : x \in Anchors}
    \cup {[CardA EXCEPT !.company = a, !.companyName = b] :
            a \in TextTags, b \in TextTags}
    \cup {[CardA EXCEPT !.recJobLoc = a, !.companyLocation = b] :
            a \in LocTags, b \in LocTags}
    \cup {[CardA EXCEPT !.summary = a, !.jobSnippet = b] :
            a \in TextTags, b \in TextTags}

\* The statuses a response may carry besides 200.
Statuses == {200, 300, 404, 500}

\* A plausible slip: only the client errors taken for failures.
raises_for_client_errors(status) == status >= 400 /\ status < 500

\* response.raise_for_status(): raises HTTPError for 4xx and 5xx.
raises_for_status(status) == status >= 400 /\ status < 600

\* The bodies tried with each status (an error body is never read).
BodiesOf(status) ==
    IF status = 200 THEN Docs
    ELSE IF raises_for_status(status) THEN {<<>>}
    ELSE {<<CardB>>}

\* The code points tried in query and location.
QueryCodePoints == {97, 32, 38, 61, 37, 233}

QueryStrings == SeqsUpTo(QueryCodePoints, MaxLen)

(* ---------------------------------------------------------------------- *)
(* scrape_jobs and main as a state machine                                 *)
(* ---------------------------------------------------------------------- *)
VARIABLES
    query, location, pages, \* the arguments of scrape_jobs
    pc,          \* where the run is
    page,        \* the page loop's index
    cards,       \* the cards selected from the page being parsed
    idx,         \* the next card of the card loop
    results,     \* scrape_jobs' result list
    postings,    \* main's postings: None until scrape_jobs has returned
    pidx,        \* the next posting of main's loop
    output,      \* the lines printed so far
    error,       \* the exception that ended the run, if any
    gets,        \* every GET issued so far (its URL), in order
    inflight,    \* the GETs not yet answered
    responses    \* every answer received so far, in order

vars == <<query, location, pages, pc, page, cards, idx, results, postings,
          pidx, output, error, gets, inflight, responses>>

args == <<query, location, pages>>

NoError == [type |-> "none", status |-> 0]

Start ==
    /\ pc = "loop"
    /\ page = 0
    /\ cards = <<>>
    /\ idx = 1
    /\ results = <<>>
    /\ postings = None
    /\ pidx = 1
    /\ output = <<>>
    /\ error = NoError
    /\ gets = <<>>
    /\ inflight = <<>>
    /\ responses = <<>>

\* main's call is scrape_jobs("computer science", "Canada", 1); pages is any
\* count a caller of scrape_jobs may pass.
Init ==
    /\ query = CodePoints("computer science")
    /\ location = CodePoints("Canada")
    /\ pages \in 0..MaxPages
    /\ Start

\* One card per page, of every shape.
InitCard ==
    /\ query = CodePoints("computer science")
    /\ location = CodePoints("Canada")
    /\ pages = 1
    /\ Start

\* Any query and location.
InitUrl ==
    /\ query \in QueryStrings
    /\ location \in QueryStrings
    /\ pages = 1
    /\ Start

\* A plausible slip: the page index passed as the offset.
start_is_page_index(p) == p

\* start=page * 10
start_of(p) == p * 10

\* for page in range(pages): build the URL and send the GET.
Request ==
    /\ pc = "loop"
    /\ page < pages
    /\ LET url == build_search_url(query, location, start_of(page))
       IN  /\ gets' = Append(gets, url)
           /\ inflight' = Append(inflight, url)
    /\ pc' = "get"
    /\ UNCHANGED <<args, page, cards, idx, results, postings, pidx, output,
                   error, responses>>

\* requests.get returns a response; raise_for_status; parse and select.
Receive(status, doc) ==
    /\ pc = "get"
    /\ inflight' = Tail(inflight)
    /\ responses' = Append(responses, [status |-> status, doc |-> doc])
    /\ IF raises_for_status(status)
       THEN /\ pc' = "raised"
            /\ error' = [type |-> "HTTPError", status |-> status]
            /\ UNCHANGED <<cards, idx>>
       ELSE /\ pc' = "cards"
            /\ cards' = doc
            /\ idx' = 1
            /\ UNCHANGED error
    /\ UNCHANGED <<args, page, results, postings, pidx, output, gets>>

Response == \E status \in Statuses : \E doc \in BodiesOf(status) : Receive(status, doc)

ResponseCard == \E card \in AllCards : Receive(200, <<card>>)

\* requests.get raises (timeout, DNS, connection reset).
NetworkFault ==
    /\ pc = "get"
    /\ inflight' = Tail(inflight)
    /\ responses' = Append(responses, [status |-> 0, doc |-> <<>>])
    /\ pc' = "raised"
    /\ error' = [type |-> "ConnectionError", status |-> 0]
    /\ UNCHANGED <<args, page, cards, idx, results, postings, pidx, output, gets>>

\* One iteration of the card loop.
ProcessCard ==
    /\ pc = "cards"
    /\ idx <= Len(cards)
    /\ results' = AppendPostings(results, CardPostings(cards[idx]))
    /\ idx' = idx + 1
    /\ UNCHANGED <<args, pc, page, cards, postings, pidx, output, error, gets,
                   inflight, responses>>

\* The card loop is exhausted: on to the next page.
EndPage ==
    /\ pc = "cards"
    /\ idx > Len(cards)
    /\ page' = page + 1
    /\ pc' = "loop"
    /\ UNCHANGED <<args, cards, idx, results, postings, pidx, output, error,
                   gets, inflight, responses>>

\* The page loop is exhausted: return results to main.
Return ==
    /\ pc = "loop"
    /\ page >= pages
    /\ postings' = Some(results)
    /\ pidx' = 1
    /\ pc' = "print"
    /\ UNCHANGED <<args, page, cards, idx, results, output, error, gets,
                   inflight, responses>>

\* One iteration of main's loop.
PrintJob ==
    /\ pc = "print"
    /\ pidx <= Len(postings[1])
    /\ output' = output \o JobLines(postings[1][pidx])
    /\ pidx' = pidx + 1
    /\ UNCHANGED <<args, pc, page, cards, idx, results, postings, error, gets,
                   inflight, responses>>

\* main returns.
Exit ==
    /\ pc = "print"
    /\ pidx > Len(postings[1])
    /\ pc' = "done"
    /\ UNCHANGED <<args, page, cards, idx, results, postings, pidx, output,
                   error, gets, inflight, responses>>

Next ==
    \/ Request
    \/ Response
    \/ NetworkFault
    \/ ProcessCard
    \/ EndPage
    \/ Return
    \/ PrintJob
    \/ Exit

NextCard ==
    \/ Request
    \/ ResponseCard
    \/ ProcessCard
    \/ EndPage
    \/ Return
    \/ PrintJob
    \/ Exit

NextUrl == Request

Spec == Init /\ [][Next]_vars

SpecCard == InitCard /\ [][NextCard]_vars

SpecUrl == InitUrl /\ [][NextUrl]_vars

(* ---------------------------------------------------------------------- *)
(* Reading a URL back: what a server does with the query string            *)
(* ---------------------------------------------------------------------- *)
RECURSIVE Split(_, _)
Split(s, c) ==
    LET i == Find(s, c)
    IN  IF i = 0 THEN <<s>>
        ELSE <<SubSeq(s, 1, i - 1)>> \o Split(SubSeq(s, i + 1, Len(s)), c)

\* The number of c in s.
Count(s, c) == Cardinality({i \in 1..Len(s) : CharAt(s, i) = c})

QueryString(url) == SubSeq(url, Find(url, "?") + 1, Len(url))

\* The key=value pairs of the URL's query string, in order.
ParseQuery(url) ==
    LET parts == Split(QueryString(url), "&")
    IN  [i \in 1..Len(parts) |->
            LET e == Find(parts[i], "=")
            IN  IF e = 0 THEN [key |-> parts[i], value |-> ""]
                ELSE [key |-> SubSeq(parts[i], 1, e - 1),
                      value |-> SubSeq(parts[i], e + 1, Len(parts[i]))]]

IsHex(c) == Find(HexDigits, c) # 0

HexVal(c) == Find(HexDigits, c) - 1

RECURSIVE UnquoteToBytes(_)
\* %XX becomes the byte XX; any other character is its own byte.
UnquoteToBytes(s) ==
    IF s = "" THEN <<>>
    ELSE IF /\ CharAt(s, 1) = "%"
            /\ Len(s) >= 3
            /\ IsHex(CharAt(s, 2))
            /\ IsHex(CharAt(s, 3))
         THEN <<16 * HexVal(CharAt(s, 2)) + HexVal(CharAt(s, 3))>>
              \o UnquoteToBytes(SubSeq(s, 4, Len(s)))
         ELSE <<Ord(CharAt(s, 1))>> \o UnquoteToBytes(SubSeq(s, 2, Len(s)))

IsContinuation(bs, i) == Len(bs) >= i /\ bs[i] >= 128 /\ bs[i] < 192

RECURSIVE Utf8Decode(_)
\* bytes.decode("utf-8", "replace"), for code points below 65536.
Utf8Decode(bs) ==
    IF bs = <<>> THEN <<>>
    ELSE IF bs[1] < 128 THEN <<bs[1]>> \o Utf8Decode(Tail(bs))
    ELSE IF bs[1] >= 192 /\ bs[1] < 224 /\ IsContinuation(bs, 2)
         THEN <<(bs[1] - 192) * 64 + (bs[2] - 128)>>
              \o Utf8Decode(SubSeq(bs, 3, Len(bs)))
    ELSE IF bs[1] >= 224 /\ bs[1] < 240 /\ IsContinuation(bs, 2) /\ IsContinuation(bs, 3)
         THEN <<(bs[1] - 224) * 4096 + (bs[2] - 128) * 64 + (bs[3] - 128)>>
              \o Utf8Decode(SubSeq(bs, 4, Len(bs)))
    ELSE <<65533>> \o Utf8Decode(Tail(bs))

\* Percent-decoding: the code points of the decoded value.
unquote(s) == Utf8Decode(UnquoteToBytes(s))

(* ---------------------------------------------------------------------- *)
(* C10                                                                     *)
(* ---------------------------------------------------------------------- *)
\* C10: every URL built has exactly the parameters q, l and start in its
\* query string, percent-decoding the values of q and l gives back the query
\* and the location, and no "&" or "=" of a value shows unescaped (the query
\* string holds two "&" and three "=", the separators alone).
C10_UrlRoundTrip ==
    \A i \in 1..Len(gets) :
        LET params == ParseQuery(gets[i])
        IN  /\ startswith(gets[i], BASE_URL \o "?")
            /\ Len(params) = 3
            /\ <<params[1].key, params[2].key, params[3].key>> = <<"q", "l", "start">>
            /\ unquote(params[1].value) = query
            /\ unquote(params[2].value) = location
            /\ Count(QueryString(gets[i]), "&") = 2
            /\ Count(QueryString(gets[i]), "=") = 3

\* A URL was built for a query holding "&" and a non-ASCII character and a
\* location holding a space and "=".
C10_Witness ==
    /\ gets # <<>>
    /\ query = <<38, 233>>
    /\ location = <<32, 61>>
    /\ gets[1] = "https://www.indeed.com/jobs?q=%26%C3%A9&l=%20%3D&start=0"

(* ---------------------------------------------------------------------- *)
(* C3                                                                      *)
(* ---------------------------------------------------------------------- *)
RECURSIVE RFindFrom(_, _, _)
\* The index of the last c in s at or before i, 0 when there is none.
RFindFrom(s, c, i) ==
    IF i = 0 THEN 0
    ELSE IF CharAt(s, i) = c THEN i
    ELSE RFindFrom(s, c, i - 1)

\* The last parameter of the URL's query string, as written.
LastParam(url) == SubSeq(url, RFindFrom(url, "&", Len(url)) + 1, Len(url))

DigitVal(c) == Find("0123456789", c) - 1

RECURSIVE StrToInt(_)
StrToInt(s) ==
    IF s = "" THEN 0
    ELSE 10 * StrToInt(SubSeq(s, 1, Len(s) - 1)) + DigitVal(CharAt(s, Len(s)))

IsNumber(s) == s # "" /\ \A k \in 1..Len(s) : DigitVal(CharAt(s, k)) >= 0

\* The GET asks for the start offset n, in its last parameter.
AsksStart(url, n) ==
    LET last == LastParam(url)
        digits == SubSeq(last, 7, Len(last))
    IN  /\ startswith(last, "start=")
        /\ IsNumber(digits)
        /\ StrToInt(digits) = n

\* The fetch that got this answer raised: a network fault (status 0) or a
\* status raise_for_status raises for.
FetchRaised(r) == r.status = 0 \/ (r.status >= 400 /\ r.status < 600)

FetchFailed(r) == r.status < 200 \/ r.status > 299

RECURSIVE Flatten(_)
Flatten(ss) == IF ss = <<>> THEN <<>> ELSE Head(ss) \o Flatten(Tail(ss))

\* The cards of the pages parsed to the end, in page order then document order.
CardsOfPages(n) == Flatten([i \in 1..n |-> responses[i].doc])

\* The cards the card loop has gone through so far.
CardsDone ==
    IF pc = "cards" THEN CardsOfPages(page) \o SubSeq(cards, 1, idx - 1)
    ELSE IF pc = "raised" THEN CardsOfPages(page)
    ELSE CardsOfPages(Len(responses))

RECURSIVE PostingsOf(_)
\* The postings of a sequence of cards, each card's in turn.
PostingsOf(cs) ==
    IF cs = <<>> THEN <<>> ELSE CardPostings(Head(cs)) \o PostingsOf(Tail(cs))

IsPrefix(s, t) == Len(s) <= Len(t) /\ SubSeq(t, 1, Len(s)) = s

ResultsInOrder ==
    /\ results = PostingsOf(CardsDone)
    /\ postings # None => postings[1] = PostingsOf(CardsOfPages(pages))

\* C4: results is at every moment the postings of the cards gone through so
\* far, page after page and card after card in document order, so that what
\* scrape_jobs returns is the concatenation over pages 0..pages-1; and every
\* step leaves the postings already in results where they are (it appends).
C4_ConcatInOrder == []ResultsInOrder /\ [][IsPrefix(results, results')]_vars

\* Two pages of two different postings each, in opposite orders, returned.
C4_Witness ==
    /\ pc = "done"
    /\ Len(responses) = 2
    /\ responses[1].doc = <<CardA, CardB>>
    /\ responses[2].doc = <<CardB, CardA>>
    /\ Len(postings[1]) = 4
    /\ postings[1][1] = postings[1][4]
    /\ postings[1][2] = postings[1][3]
    /\ postings[1][1] # postings[1][2]

(* ---------------------------------------------------------------------- *)
(* C9                                                                      *)
(* ---------------------------------------------------------------------- *)
LineCount(job) == IF job.summary = "" THEN 3 ELSE 4

RECURSIVE LinesBefore(_, _)
\* The number of report lines of the first n postings.
LinesBefore(jobs, n) ==
    IF n = 0 THEN 0 ELSE LinesBefore(jobs, n - 1) + LineCount(jobs[n])

IsSeparator(line) == Len(line) = 60 /\ \A k \in 1..Len(line) : CharAt(line, k) = "-"

HasTitleAnchor(card) == card.h2title # None \/ card.h2jobTitle # None

\* The card with a title anchor put in: a full one under the primary title
\* selector, or a bare one (no attribute, no text) under the alternate.
WithTitle(card) ==
    {[card EXCEPT !.h2title = Some(Anchor(Some("T"), Some("/viewjob?jk=abc"), " a "))],
     [card EXCEPT !.h2jobTitle = Some(Anchor(None, None, ""))]}

RemoveAt(s, i) == SubSeq(s, 1, i - 1) \o SubSeq(s, i + 1, Len(s))

\* scrape_jobs has just returned its list to main.
JustReturned == pc = "print" /\ pidx = 1

\* C5: when scrape_jobs returns, a card matching neither title selector has
\* emitted no posting (the list holds one posting per card with a title
\* anchor), and the same pages with only that card given a title anchor yield
\* exactly one posting more, the postings of all other cards being the same,
\* in the same places.
C5_TitleSkip ==
    JustReturned =>
        LET all == CardsOfPages(pages)
        IN  /\ Len(postings[1]) = Cardinality({i \in 1..Len(all) : HasTitleAnchor(all[i])})
            /\ \A i \in 1..Len(all) :
                  ~HasTitleAnchor(all[i]) =>
                      \A v \in WithTitle(all[i]) :
                          LET other == PostingsOf([all EXCEPT ![i] = v])
                              at == Len(PostingsOf(SubSeq(all, 1, i - 1))) + 1
                          IN  /\ Len(other) = Len(postings[1]) + 1
                              /\ RemoveAt(other, at) = postings[1]

\* A returned page whose second card has no title anchor, between two that have.
C5_Witness ==
    /\ JustReturned
    /\ pages = 2
    /\ responses[1].doc = <<CardA, CardNoTitle>>
    /\ responses[2].doc = <<CardB>>
    /\ Len(postings[1]) = 2

(* ---------------------------------------------------------------------- *)
(* Claims about one card (SpecCard: the page holds a single card)          *)
(* ---------------------------------------------------------------------- *)
\* The card of the page, once the page has come.
TheCard == responses[1].doc[1]

\* The anchor the title comes from: the first of the two selectors to match.
TitleAnchor(card) == IF card.h2title # None THEN card.h2title[1] ELSE card.h2jobTitle[1]

IsAbsoluteUrl(u) == startswith(u, "https://") \/ startswith(u, "http://")

\* C2: every posting in results has a non-empty title.
C2_TitleNonEmpty == \A i \in 1..Len(results) : results[i].title # ""

\* C6: the url of an emitted posting comes from the href of the anchor that
\* gave the title: the site origin followed by the href when the href starts
\* with "/", the href unchanged when it is present and starts otherwise, and
\* the empty string when the anchor has no href.
C6_UrlRule ==
    \A i \in 1..Len(results) :
        LET a == TitleAnchor(TheCard)
        IN  IF a.href = None THEN results[i].url = ""
            ELSE IF a.href[1] # "" /\ CharAt(a.href[1], 1) = "/"
                 THEN results[i].url = "https://www.indeed.com" \o a.href[1]
                 ELSE results[i].url = a.href[1]

\* A posting whose relative link was made absolute, from a card that holds
\* another anchor under the alternate selector.
C6_Witness ==
    /\ Len(results) = 1
    /\ TheCard.h2title # None
    /\ TheCard.h2jobTitle # None
    /\ TheCard.h2title[1].href = Some("/viewjob?jk=abc")
    /\ results[1].url = "https://www.indeed.com/viewjob?jk=abc"

\* C7 as claimed: every posting's url is an absolute URL, and so is every
\* url line of the report.
C7_UrlAlwaysAbsolute ==
    /\ \A i \in 1..Len(results) : IsAbsoluteUrl(results[i].url)
    /\ pc = "done" /\ output # <<>> => IsAbsoluteUrl(output[Len(output) - 1])

\* C7, amended: the url of a posting, and the url line of the report, is an
\* absolute URL exactly when the title anchor's href starts with "/" or is
\* itself absolute; a relative href that does not start with "/" is kept as
\* it is and a missing href gives the empty string, neither being absolute.
C7_AbsoluteWhenRootedOrAbsolute ==
    \A i \in 1..Len(results) :
        LET a == TitleAnchor(TheCard)
            rooted == a.href # None /\ (startswith(a.href[1], "/") \/ IsAbsoluteUrl(a.href[1]))
        IN  /\ IsAbsoluteUrl(results[i].url) <=> rooted
            /\ ~rooted => results[i].url = (IF a.href = None THEN "" ELSE a.href[1])
            /\ pc = "done" => output[Len(output) - 1] = results[i].url

\* A finished report whose url line is a relative link, kept as it was.
C7_Witness ==
    /\ pc = "done"
    /\ Len(results) = 1
    /\ TitleAnchor(TheCard).href = Some("viewjob?jk=abc")
    /\ results[1].url = "viewjob?jk=abc"
    /\ output[Len(output) - 1] = "viewjob?jk=abc"

\* C8 as claimed: company is the trimmed text of the span.company element
\* when there is one; with only a span.companyName element it is that
\* element's trimmed text and is not empty; with neither it is empty.
C8_AlternateNeverEmpty ==
    \A i \in 1..Len(results) :
        IF TheCard.company # None
        THEN results[i].company = strip(TheCard.company[1])
        ELSE IF TheCard.companyName # None
             THEN /\ results[i].company = strip(TheCard.companyName[1])
                  /\ results[i].company # ""
             ELSE results[i].company = ""

\* No character of s but whitespace.
IsBlank(s) == \A k \in 1..Len(s) : CharAt(s, k) \in Whitespace

\* C8, amended: company is the trimmed text of the span.company element when
\* there is one, whatever span.companyName holds; with only a
\* span.companyName element it is that element's trimmed text, which is empty
\* exactly when the element's text is empty or all whitespace; with neither
\* it is empty.
C8_CompanyFallback ==
    \A i \in 1..Len(results) :
        IF TheCard.company # None
        THEN results[i].company = strip(TheCard.company[1])
        ELSE IF TheCard.companyName # None
             THEN /\ results[i].company = strip(TheCard.companyName[1])
                  /\ results[i].company = "" <=> IsBlank(TheCard.companyName[1])
             ELSE results[i].company = ""

\* A posting whose company came from a blank span.company although the card
\* holds a span.companyName with text.
C8_Witness ==
    /\ Len(results) = 1
    /\ TheCard.company = Some(" ")
    /\ TheCard.companyName = Some(" a ")
    /\ results[1].company = ""

\* A posting whose company came from the alternate selector alone.
C8_WitnessAlternate ==
    /\ Len(results) = 1
    /\ TheCard.company = None
    /\ TheCard.companyName = Some(" a ")
    /\ results[1].company = "a"
====
